---- MODULE Spec2Model ----
(***************************************************************************)
(* Model of automateCaseFilesDownlaoder.py: an interactive script that     *)
(* connects to an SFTP server, asks for a case number, and downloads the   *)
(* whole case directory (download_directory) or a single file.             *)
(*                                                                         *)
(* Paths are sequences of name components: os.path.join(d, name) of a name *)
(* without separators is Append(d, name), and '/case/<n>' is               *)
(* <<"case", n>>.  Sizes are natural numbers written in base 1024 (least   *)
(* significant digit first), so that sizes above 1024^4 can be handled.    *)
(***************************************************************************)
EXTENDS Integers, Sequences, FiniteSets, TLC

\* ------------------------------------------------------------------ bounds
\* A remote case tree holds at most MaxNodes entries (files and directories).
MaxNodes == 2
\* The session loop is followed for at most MaxPasses passes (connect calls).
MaxPasses == 2
\* In one pass the user enters at most MaxFilePrompts missing filenames.
MaxFilePrompts == 1
\* Of the progress callbacks of one transfer, the first MaxCallbacks - 1 and
\* the last one are followed.
MaxCallbacks == 3

\* ------------------------------------------------------- program constants
\* power = 2**10 in format_size
power == 1024
\* the mask of the test "item.st_mode & 0o4000" in download_directory
DirTestMask == 2048
\* the unit labels of format_size, power_labels = {0: '', 1: 'KB', 2: 'MB', 3: 'GB'}
Labels == <<"", "KB", "MB", "GB">>
\* number of base-1024 digits of a size: one more than there are labels, so
\* that sizes beyond the last label (up to 1024^5 - 1) can be written
NDigits == Len(Labels) + 1

\* file-type bits of st_mode as the server reports them (0o170000, 0o040000,
\* 0o100000, 0o120000) and the set-user-id bit (0o4000)
S_IFMT == 15 * 4096
S_IFDIR == 4 * 4096
S_IFREG == 8 * 4096
S_IFLNK == 10 * 4096
S_ISUID == 4 * 512

\* ------------------------------------------------------------ bit helpers
RECURSIVE BitAnd(_, _)
\* a & b on non-negative integers
BitAnd(a, b) ==
  IF a = 0 \/ b = 0 THEN 0
  ELSE (IF a % 2 = 1 /\ b % 2 = 1 THEN 1 ELSE 0) + 2 * BitAnd(a \div 2, b \div 2)

\* ------------------------------------------------------------------ sizes
RECURSIVE DigitsOf(_, _)
DigitsOf(n, k) == IF k = 0 THEN <<>> ELSE <<n % power>> \o DigitsOf(n \div power, k - 1)

\* the size n (below 2^31) as base-1024 digits
Sz(n) == DigitsOf(n, NDigits)

Zero == Sz(0)
\* 1024^4 and 1024^4 + 1
Tera == <<0, 0, 0, 0, 1>>
TeraPlus1 == <<1, 0, 0, 0, 1>>

\* d >= 1024^k: a loop test that promotes a value equal to the threshold
AtLeastPower(d, k) ==
  /\ k + 1 <= NDigits
  /\ \/ \E i \in (k + 2)..NDigits : d[i] # 0
     \/ d[k + 1] >= 1

\* d > 1024^k, for a size d
GreaterThanPower(d, k) ==
  /\ k + 1 <= NDigits
  /\ \/ \E i \in (k + 2)..NDigits : d[i] # 0
     \/ d[k + 1] > 1
     \/ d[k + 1] = 1 /\ \E i \in 1..k : d[i] # 0

RECURSIVE format_size_loop(_, _)
\* the loop of format_size: after n divisions the value is size / 1024^n, and
\* "size > power" compares it with 1024, i.e. the input with 1024^(n+1).
format_size_loop(size, n) ==
  IF GreaterThanPower(size, n + 1) THEN format_size_loop(size, n + 1) ELSE n

\* a label table that goes on to terabytes
power_labels_tb == [n \in 0..Len(Labels) |-> IF n < Len(Labels) THEN Labels[n + 1] ELSE "TB"]

power_labels == [n \in 0..(Len(Labels) - 1) |-> Labels[n + 1]]

\* format_size(size): the unit index reached, the label, the whole part of the
\* value printed, or a KeyError when the index is not in power_labels.
format_size(size) ==
  LET n == format_size_loop(size, 0) IN
  IF n \in DOMAIN power_labels
    THEN [raised |-> FALSE, n |-> n, label |-> power_labels[n],
          whole |-> size[n + 1] + (IF n + 2 <= NDigits THEN power * size[n + 2] ELSE 0)]
    ELSE [raised |-> TRUE, n |-> n, label |-> "KeyError", whole |-> 0]

\* d < e, for sizes d and e
SizeLess(d, e) ==
  \E i \in 1..NDigits : d[i] < e[i] /\ \A j \in (i + 1)..NDigits : d[j] = e[j]

\* ------------------------------------------------------ progress callbacks
\* getfo reads the remote file in chunks of 32768 bytes and, after each chunk
\* that is not empty, calls callback(bytes read so far, size of the file).
ChunkSize == 32 * power

\* the byte counts getfo hands to the callback for a file of total bytes
Callbacks(total) ==
  LET full == {k \in 1..(MaxCallbacks - 1) : SizeLess(Sz(k * ChunkSize), total)}
  IN [k \in 1..Cardinality(full) |-> Sz(k * ChunkSize)]
       \o (IF total = Zero THEN <<>> ELSE <<total>>)

\* print_progress: the percentage divides by remotefile_size, and both
\* sizes are formatted; the value is how the call ends.
print_progress(transferred, total, remotefile_size) ==
  IF remotefile_size = Zero THEN "ZeroDivisionError"
  ELSE IF format_size(transferred).raised \/ format_size(remotefile_size).raised
    THEN "KeyError"
    ELSE "ok"

\* ------------------------------------------------------ exclusion of names
exclude_patterns == <<".sfdcprefix", ".sfdc-file-listing-v1">>

should_exclude(filename) == \E i \in DOMAIN exclude_patterns : exclude_patterns[i] = filename

\* ------------------------------------------------------------ remote side
\* A remote entry, as listdir_attr reports it (filename, st_mode, st_size),
\* with what a transfer of it delivers (a content token and the number of
\* bytes) and the listing of a directory.
Entry(name, mode, size, data) ==
  [filename |-> name, st_mode |-> mode, st_size |-> size, data |-> data,
   content_size |-> size, children |-> <<>>]

IsDir(e) == BitAnd(e.st_mode, S_IFMT) = S_IFDIR
IsReg(e) == BitAnd(e.st_mode, S_IFMT) = S_IFREG
IsLnk(e) == BitAnd(e.st_mode, S_IFMT) = S_IFLNK

\* The entries a case directory is built from: regular files (one small, one
\* with a sentinel name, one whose name extends a sentinel name, one larger
\* than 1024^4 bytes), directories (mode 0o040755, mode 0o044755, and one
\* with a sentinel name), and a symbolic link (mode 0o120777) to a regular
\* file of 70000 bytes: a listing reports the attributes of the link itself
\* (its size is the length of the target name), a transfer follows the link.
Universe ==
  { Entry("a.txt", S_IFREG + 420, Sz(500), "A"),
    Entry(".sfdcprefix", S_IFREG + 420, Sz(10), "P"),
    Entry(".sfdcprefix.bak", S_IFREG + 420, Sz(1025), "B"),
    Entry("big.bin", S_IFREG + 420, TeraPlus1, "G"),
    Entry("sub", S_IFDIR + 493, Zero, ""),
    Entry("logs", S_IFDIR + S_ISUID + 493, Zero, ""),
    Entry(".sfdc-file-listing-v1", S_IFDIR + S_ISUID + 493, Zero, ""),
    [Entry("latest", S_IFLNK + 511, Sz(5), "L") EXCEPT !.content_size = Sz(70000)] }

RECURSIVE Nodes(_)
\* number of entries of a listing, nested ones included
Nodes(l) == IF l = <<>> THEN 0 ELSE 1 + Nodes(Head(l).children) + Nodes(Tail(l))

DistinctNames(l) == \A i, j \in DOMAIN l : l[i].filename = l[j].filename => i = j

RECURSIVE Forest(_)
\* every listing of at most n entries: sibling names are distinct, any order
Forest(n) ==
  IF n = 0 THEN {<<>>}
  ELSE LET F == Forest(n - 1)
           C == UNION { { <<[u EXCEPT !.children = c]>> \o rest :
                            c \in (IF IsDir(u) THEN F ELSE {<<>>}), rest \in F } :
                        u \in Universe }
       IN F \cup { l \in C : Nodes(l) <= n /\ DistinctNames(l) }

Named(name) == CHOOSE u \in Universe : u.filename = name

\* a deeper case directory: a directory with a file in it, followed by a file
DeepTrees ==
  { <<[Named("logs") EXCEPT !.children = <<Named("a.txt")>>], Named(".sfdcprefix.bak")>> }

RemoteTrees == Forest(MaxNodes) \cup DeepTrees

\* The case numbers the user may type; only ExistingCase has a directory
\* /case/<n> on the server.
ExistingCase == "00123"
CaseNumbers == {ExistingCase, "99999"}

\* What the user may type at the filename prompt, the yes/no prompt and the
\* local-directory prompt.
FilenameInputs == {"a.txt", ".sfdcprefix", "big.bin", "nope.txt"}
ChoiceInputs == {"yes", "YES", "no", "maybe"}
LocalParentInputs == {<<"~", "dl">>}

NoEntry == Entry("", 0, Zero, "")
Present(e) == e.st_mode # 0

RECURSIVE Find(_, _)
\* the entry at the relative path rel (not empty) below a listing
Find(listing, rel) ==
  IF listing = <<>> THEN NoEntry
  ELSE IF Head(listing).filename = Head(rel)
         THEN (IF Len(rel) = 1 THEN Head(listing) ELSE Find(Head(listing).children, Tail(rel)))
         ELSE Find(Tail(listing), rel)

\* the node of the server at an absolute path <<"case", n, ...>>
RemoteNode(tree, path) ==
  IF Len(path) < 2 \/ path[1] # "case" \/ path[2] # ExistingCase THEN NoEntry
  ELSE IF Len(path) = 2
         THEN [Entry(ExistingCase, S_IFDIR + 493, Zero, "") EXCEPT !.children = tree]
         ELSE Find(tree, SubSeq(path, 3, Len(path)))

\* the attributes listdir_attr reports for an entry
Attr(e) == [filename |-> e.filename, st_mode |-> e.st_mode, st_size |-> e.st_size]

\* the attributes sftp.stat reports: stat follows a symbolic link
Stat(e) ==
  [st_mode |-> IF IsLnk(e) THEN S_IFREG + 420 ELSE e.st_mode, st_size |-> e.content_size]

\* ------------------------------------------------------------- local side
DirNode == [kind |-> "dir", st_size |-> Zero, data |-> ""]
FileNode(size, data) == [kind |-> "file", st_size |-> size, data |-> data]

Home == <<"home", "user">>
\* os.path.expanduser: a leading "~" component becomes the home directory
expanduser(path) == IF path # <<>> /\ Head(path) = "~" THEN Home \o Tail(path) ELSE path

Prefixes(path) == {SubSeq(path, 1, k) : k \in 1..Len(path)}
Parent(path) == SubSeq(path, 1, Len(path) - 1)

\* an existence test that always answers yes
exists_always(fs, path) == TRUE

\* os.path.exists
exists(fs, path) == path = <<>> \/ path \in DOMAIN fs

\* a makedirs that fails whenever the path exists
makedirs_strict(fs, path, exist_ok) ==
  IF path \in DOMAIN fs THEN [raised |-> TRUE, fs |-> fs]
  ELSE [raised |-> FALSE, fs |-> [q \in Prefixes(path) \ DOMAIN fs |-> DirNode] @@ fs]

\* os.makedirs(path, exist_ok): creates the missing directories of the path;
\* raises when a component is a file, or when the path exists and either
\* exist_ok is false or the path is not a directory.
makedirs(fs, path, exist_ok) ==
  LET blocked == \E q \in Prefixes(path) : q # path /\ q \in DOMAIN fs /\ fs[q].kind # "dir"
      clash == path \in DOMAIN fs /\ (~exist_ok \/ fs[path].kind # "dir")
      missing == {q \in Prefixes(path) : q \notin DOMAIN fs}
  IN IF blocked \/ clash THEN [raised |-> TRUE, fs |-> fs]
     ELSE [raised |-> FALSE, fs |-> [q \in missing |-> DirNode] @@ fs]

\* open(path, 'wb'): creates or truncates the file; raises when the parent is
\* not a directory or the path is one.
open_wb(fs, path) ==
  LET par == Parent(path)
      parent_ok == par = <<>> \/ (par \in DOMAIN fs /\ fs[par].kind = "dir")
      is_dir == path \in DOMAIN fs /\ fs[path].kind = "dir"
  IN IF path = <<>> \/ ~parent_ok \/ is_dir THEN [raised |-> TRUE, fs |-> fs]
     ELSE [raised |-> FALSE, fs |-> (path :> FileNode(Zero, "")) @@ fs]

\* ------------------------------------------------------------------ events
Ev(op, arg, res) == [op |-> op, arg |-> arg, res |-> res]
Prints(msg) == Ev("print", <<msg>>, "")

MsgEstablished == "SSH connection established."
MsgAuthFailed == "Authentication failed. Please check your username and password."
MsgSshFailed == "Failed to establish SSH connection. Please check the server details."
MsgAborted == "Download process aborted."
MsgNoDirectory == "Remote directory does not exist."
MsgContents == "Contents of case file directory"
MsgDownloading == "Downloading"
MsgFileComplete == "Download complete"
MsgNoFile == "Remote file does not exist. Please enter a valid filename."
MsgInvalid == "Invalid choice. Please enter 'yes' or 'no'."
MsgCompleted == "Download process completed."
MsgError == "An error occurred"
MsgEnded == "Session has ended."

\* ------------------------------------------------------------------- state
VARIABLES
  pc,            \* the statement the script is at
  remote,        \* the listing of /case/ExistingCase on the server
  localfs,       \* the local filesystem: path -> node
  ssh_client,    \* the name ssh_client: whether line 70 has bound it, and the
                 \* connection its transport is (an index of conns, 0 for none)
  conns,         \* the connections made by successful connect calls: "open" or "closed"
  sftp_open,     \* number of SFTP sessions open
  case_number, local_parent_directory, choice, filename,
  stack,         \* the frames of download_directory, innermost last
  log,           \* the events (calls, prompts, prints) of the current pass of the loop
  n_connect,     \* connect calls made
  n_close,       \* close calls made
  exc,           \* the exception propagating through the finally block
  last_round     \* how the previous pass of the loop ended

vars == <<pc, remote, localfs, ssh_client, conns, sftp_open, case_number,
          local_parent_directory, choice, filename, stack, log, n_connect, n_close,
          exc, last_round>>

Init ==
  /\ pc = "username"
  /\ remote \in RemoteTrees
  /\ localfs = [q \in Prefixes(Home) |-> DirNode]
  /\ ssh_client = [bound |-> FALSE, transport |-> 0]
  /\ conns = <<>>
  /\ sftp_open = 0
  /\ case_number = ""
  /\ local_parent_directory = <<>>
  /\ choice = ""
  /\ filename = ""
  /\ stack = <<>>
  /\ log = <<>>
  /\ n_connect = 0
  /\ n_close = 0
  /\ exc = "none"
  /\ last_round = "none"

\* ------------------------------------------------------- exception routing
\* An exception that reaches the outer try statement (lines 62-149): the
\* clause "except Exception" prints it; a KeyboardInterrupt is no Exception
\* and propagates through the finally block.
OuterExcept(lg, e) ==
  IF e = "KeyboardInterrupt"
    THEN [log |-> lg, exc |-> e]
    ELSE [log |-> Append(lg, Prints(MsgError)), exc |-> "none"]

\* a connect loop that tries again after a transport failure
ConnectFailureRetry(e) == IF e = "SSHException" THEN "connect" ELSE "finally"

\* where "break" in the three except clauses of the connect call leads
ConnectFailureTarget(e) == "finally"

\* an inner handler that goes on with the loop instead of leaving it
InnerInterruptContinue == "connect"

\* where "break" in the except KeyboardInterrupt clause of the inner try leads
InnerInterruptTarget == "finally"

\* An exception raised inside the inner try statement (lines 88-142): a
\* KeyboardInterrupt is caught there (abort message, break), anything else
\* goes to the outer try.  Leaving the with block closes the SFTP session and
\* unwinding drops the frames of download_directory.
RaiseInner(lg, e) ==
  /\ IF e = "KeyboardInterrupt"
       THEN /\ log' = Append(lg, Prints(MsgAborted))
            /\ pc' = InnerInterruptTarget
            /\ exc' = exc
       ELSE /\ log' = OuterExcept(lg, e).log
            /\ pc' = "finally"
            /\ exc' = OuterExcept(lg, e).exc
  /\ sftp_open' = 0
  /\ stack' = <<>>

\* ---------------------------------------------------------------- prompts
InputOutcomes == {"ok", "KeyboardInterrupt", "EOFError"}

\* lines 66-67: a prompt before the client exists
CredentialPrompt(here, prompt, next) ==
  /\ pc = here
  /\ \E r \in InputOutcomes :
       LET lg == Append(log, Ev("input", <<prompt>>, r)) IN
       IF r = "ok"
         THEN pc' = next /\ log' = lg /\ exc' = exc
         ELSE pc' = "finally" /\ log' = OuterExcept(lg, r).log /\ exc' = OuterExcept(lg, r).exc
  /\ UNCHANGED <<remote, localfs, ssh_client, conns, sftp_open, case_number,
                 local_parent_directory, choice, filename, stack, n_connect, n_close,
                 last_round>>

PromptUsername == CredentialPrompt("username", "username", "password")
PromptPassword == CredentialPrompt("password", "password", "create_client")

\* lines 70-71
CreateClient ==
  /\ pc = "create_client"
  /\ ssh_client' = [bound |-> TRUE, transport |-> 0]
  /\ pc' = "connect"
  /\ UNCHANGED <<remote, localfs, conns, sftp_open, case_number, local_parent_directory,
                 choice, filename, stack, log, n_connect, n_close, exc, last_round>>

\* ------------------------------------------------------------ connect loop
ConnectOutcomes == {"ok", "AuthenticationException", "SSHException", "KeyboardInterrupt", "OSError"}

ConnectMessage(r) ==
  CASE r = "ok" -> <<Prints(MsgEstablished)>>
    [] r = "AuthenticationException" -> <<Prints(MsgAuthFailed)>>
    [] r = "SSHException" -> <<Prints(MsgSshFailed)>>
    [] r = "KeyboardInterrupt" -> <<Prints(MsgAborted)>>
    [] OTHER -> <<>>

\* The transport the client holds after a connect call.  SSHClient.connect
\* opens the socket, then replaces the client's transport by a new one, then
\* negotiates and authenticates: a socket error leaves the old transport, a
\* failure of the negotiation or of the authentication leaves the new one,
\* which is no connection, and an interrupt may come at either point.  The
\* transport that is replaced is not closed.
TransportsAfter(r) ==
  CASE r = "ok" -> {Len(conns) + 1}
    [] r = "OSError" -> {ssh_client.transport}
    [] r = "KeyboardInterrupt" -> {ssh_client.transport, 0}
    [] OTHER -> {0}

\* lines 74-86: the top of the while True loop.  Every pass calls connect on
\* the same client; a new pass starts a new log.
Connect ==
  /\ pc = "connect"
  /\ n_connect < MaxPasses
  /\ n_connect' = n_connect + 1
  /\ \E r \in ConnectOutcomes :
       LET lg == <<Ev("connect", <<>>, r)>> \o ConnectMessage(r) IN
       /\ conns' = IF r = "ok" THEN Append(conns, "open") ELSE conns
       /\ \E t \in TransportsAfter(r) : ssh_client' = [ssh_client EXCEPT !.transport = t]
       /\ IF r = "ok" THEN pc' = "case" /\ log' = lg /\ exc' = exc
          ELSE IF r = "OSError"
            THEN pc' = "finally" /\ log' = OuterExcept(lg, r).log /\ exc' = OuterExcept(lg, r).exc
            ELSE pc' = ConnectFailureTarget(r) /\ log' = lg /\ exc' = exc
  /\ UNCHANGED <<remote, localfs, sftp_open, case_number,
                 local_parent_directory, choice, filename, stack, n_close, last_round>>

\* line 90
PromptCase ==
  /\ pc = "case"
  /\ \/ \E v \in CaseNumbers :
          /\ case_number' = v
          /\ log' = Append(log, Ev("input", <<"case", v>>, "ok"))
          /\ pc' = "localdir"
          /\ UNCHANGED <<sftp_open, stack, exc>>
     \/ \E r \in InputOutcomes \ {"ok"} :
          /\ RaiseInner(Append(log, Ev("input", <<"case">>, r)), r)
          /\ UNCHANGED case_number
  /\ UNCHANGED <<remote, localfs, ssh_client, conns, local_parent_directory, choice,
                 filename, n_connect, n_close, last_round>>

\* line 91
PromptLocalDir ==
  /\ pc = "localdir"
  /\ \/ \E v \in LocalParentInputs :
          /\ local_parent_directory' = v
          /\ log' = Append(log, Ev("input", <<"localdir">> \o v, "ok"))
          /\ pc' = "open_sftp"
          /\ UNCHANGED <<sftp_open, stack, exc>>
     \/ \E r \in InputOutcomes \ {"ok"} :
          /\ RaiseInner(Append(log, Ev("input", <<"localdir">>, r)), r)
          /\ UNCHANGED local_parent_directory
  /\ UNCHANGED <<remote, localfs, ssh_client, conns, case_number, choice, filename,
                 n_connect, n_close, last_round>>

\* line 94: with ssh_client.open_sftp() as sftp
OpenSftp ==
  /\ pc = "open_sftp"
  /\ \E r \in {"ok", "SSHException", "KeyboardInterrupt"} :
       LET lg == Append(log, Ev("open_sftp", <<>>, r)) IN
       IF r = "ok"
         THEN /\ sftp_open' = sftp_open + 1
              /\ pc' = "validate"
              /\ log' = lg
              /\ UNCHANGED <<stack, exc>>
         ELSE RaiseInner(lg, r)
  /\ UNCHANGED <<remote, localfs, ssh_client, conns, case_number, local_parent_directory,
                 choice, filename, n_connect, n_close, last_round>>

remote_directory == <<"case", case_number>>

\* what a listing call of the server answers for a path
ListOutcomes(path) ==
  {IF IsDir(RemoteNode(remote, path)) THEN "ok" ELSE "IOError", "KeyboardInterrupt", "SSHException"}

\* a loop that asks for the case number again without a new connect call
MissingDirectoryReprompt == "case"

\* where "continue" in the except IOError clause (line 101) leads: the top of
\* the while True loop, which is the connect call
MissingDirectoryTarget == "connect"

\* lines 95-101: the listing that validates the case directory
Validate ==
  /\ pc = "validate"
  /\ \E r \in ListOutcomes(remote_directory) :
       LET lg == Append(log, Ev("listdir", remote_directory, r)) IN
       CASE r = "ok" ->
              /\ pc' = "mkcase"
              /\ log' = lg
              /\ UNCHANGED <<sftp_open, stack, exc, last_round>>
         [] r = "IOError" ->
              /\ log' = Append(lg, Prints(MsgNoDirectory))
              /\ pc' = MissingDirectoryTarget
              /\ sftp_open' = sftp_open - 1
              /\ last_round' = "missing"
              /\ UNCHANGED <<stack, exc>>
         [] OTHER ->
              /\ RaiseInner(lg, r)
              /\ UNCHANGED last_round
  /\ UNCHANGED <<remote, localfs, ssh_client, conns, case_number, local_parent_directory,
                 choice, filename, n_connect, n_close>>

\* line 104 (read after line 103 has expanded the parent directory)
local_case_directory == Append(local_parent_directory, case_number)

\* lines 103-107: the local case directory is created when it does not exist
EnsureLocalCase ==
  /\ pc = "mkcase"
  /\ LET parent == expanduser(local_parent_directory)
         dir == Append(parent, case_number)
         made == makedirs(localfs, dir, FALSE)
     IN /\ local_parent_directory' = parent
        /\ IF exists(localfs, dir)
             THEN pc' = "list" /\ UNCHANGED <<localfs, log, sftp_open, stack, exc>>
             ELSE IF made.raised
               THEN RaiseInner(Append(log, Ev("makedirs", dir, "OSError")), "OSError")
                    /\ UNCHANGED localfs
               ELSE /\ localfs' = made.fs
                    /\ log' = Append(log, Ev("makedirs", dir, "ok"))
                    /\ pc' = "list"
                    /\ UNCHANGED <<sftp_open, stack, exc>>
  /\ UNCHANGED <<remote, ssh_client, conns, case_number, choice, filename, n_connect,
                 n_close, last_round>>

\* lines 109-114: the listing that is printed
ListContents ==
  /\ pc = "list"
  /\ \E r \in ListOutcomes(remote_directory) :
       LET lg == Append(log, Ev("listdir", remote_directory, r)) IN
       IF r = "ok"
         THEN /\ log' = Append(lg, Prints(MsgContents))
              /\ pc' = "choice"
              /\ UNCHANGED <<sftp_open, stack, exc>>
         ELSE RaiseInner(lg, r)
  /\ UNCHANGED <<remote, localfs, ssh_client, conns, case_number, local_parent_directory,
                 choice, filename, n_connect, n_close, last_round>>

\* str.lower on the answers the user may type
Lower(v) == IF v = "YES" THEN "yes" ELSE v

Frame(rdir, ldir) ==
  [remote_dir |-> rdir, local_dir |-> ldir, items |-> <<>>, i |-> 1, listed |-> FALSE]

\* a yes/no question that is asked again after an invalid answer
InvalidChoiceReask == "choice"

\* lines 135-138: after the message for an invalid answer the script goes on
\* to line 138
InvalidChoiceTarget == "completed"

\* lines 115-119, 135-136: the yes/no question
PromptChoice ==
  /\ pc = "choice"
  /\ \/ \E v \in ChoiceInputs :
          LET lg == Append(log, Ev("input", <<"choice", v>>, "ok")) IN
          /\ choice' = Lower(v)
          /\ CASE Lower(v) = "yes" ->
                    /\ pc' = "walk"
                    /\ stack' = <<Frame(remote_directory, local_case_directory)>>
                    /\ log' = lg
               [] Lower(v) = "no" ->
                    /\ pc' = "filename"
                    /\ log' = lg
                    /\ UNCHANGED stack
               [] OTHER ->
                    /\ pc' = InvalidChoiceTarget
                    /\ log' = Append(lg, Prints(MsgInvalid))
                    /\ UNCHANGED stack
          /\ UNCHANGED <<sftp_open, exc>>
     \/ \E r \in InputOutcomes \ {"ok"} :
          /\ RaiseInner(Append(log, Ev("input", <<"choice">>, r)), r)
          /\ UNCHANGED choice
  /\ UNCHANGED <<remote, localfs, ssh_client, conns, case_number, local_parent_directory,
                 filename, n_connect, n_close, last_round>>

\* ------------------------------------------------------ download_directory
Top == stack[Len(stack)]

\* a loop that takes the entries of a listing from the last one to the first
ItemReversed == Top.items[Len(Top.items) + 1 - Top.i]

\* line 30: the entry the for loop is at
Item == Top.items[Top.i]
remote_path == Append(Top.remote_dir, Item.filename)
local_path == Append(Top.local_dir, Item.filename)

SetTop(f) == [stack EXCEPT ![Len(stack)] = f]

\* line 35: the test that sends an entry to the directory branch
TreatedAsDirectory(item) == BitAnd(item.st_mode, DirTestMask) # 0

\* what getfo answers: the bytes of a regular file, or a failure
GetfoOutcomes(path) ==
  (IF IsReg(RemoteNode(remote, path)) \/ IsLnk(RemoteNode(remote, path)) THEN {"ok"} ELSE {})
    \cup {"IOError", "KeyboardInterrupt"}

\* A transfer of total bytes with the callback of lines 42 and 133,
\* lambda x, y: print_progress(x, y, remote_size): the callbacks made, how the
\* transfer ends (a callback that raises ends it), and the bytes written.
Transfer(total, remote_size) ==
  LET cb == Callbacks(total)
      res == [k \in DOMAIN cb |-> print_progress(cb[k], total, remote_size)]
      bad == {k \in DOMAIN cb : res[k] # "ok"}
      last == IF bad = {} THEN Len(cb) ELSE CHOOSE k \in bad : \A j \in bad : k <= j
  IN [events |-> [k \in 1..last |-> Ev("progress", <<cb[k], total, remote_size>>, res[k])],
      exc |-> IF bad = {} THEN "ok" ELSE res[last],
      written |-> IF last = 0 THEN Zero ELSE cb[last]]

\* sftp.getfo(rpath, local_file, callback) inside "with open(lpath, 'wb')",
\* where r is the answer of the server and fs holds the file just opened:
\* how the call ends, the events up to the end of the with block (which closes
\* the file on every exit), and the local filesystem.
getfo(lg, fs, rpath, lpath, remote_size, r) ==
  LET node == RemoteNode(remote, rpath)
      t == Transfer(node.content_size, remote_size)
      e == IF r = "ok" THEN t.exc ELSE r
  IN [exc |-> e,
      log |-> lg \o (IF r = "ok" THEN t.events ELSE <<>>)
                 \o <<Ev("getfo", rpath, e), Ev("file_close", lpath, "ok")>>,
      fs |-> IF r = "ok" THEN (lpath :> FileNode(t.written, node.data)) @@ fs ELSE fs]

\* a walker that passes over an entry whose transfer fails
WalkerCatchesIOError(e) == e = "IOError"

\* download_directory has no try statement: it catches no exception of a
\* transfer, which leaves the function through every level of the recursion
WalkerCatches(e) == FALSE

WalkUnchanged ==
  UNCHANGED <<remote, ssh_client, conns, case_number, local_parent_directory, choice,
              filename, n_connect, n_close, last_round>>

\* line 30: sftp.listdir_attr(remote_dir), on entering download_directory
WalkListdir ==
  /\ pc = "walk"
  /\ ~Top.listed
  /\ \E r \in ListOutcomes(Top.remote_dir) :
       LET lg == Append(log, Ev("listdir_attr", Top.remote_dir, r)) IN
       IF r = "ok"
         THEN /\ stack' = SetTop([Top EXCEPT
                    !.items = [k \in DOMAIN RemoteNode(remote, Top.remote_dir).children |->
                                 Attr(RemoteNode(remote, Top.remote_dir).children[k])],
                    !.listed = TRUE])
              /\ log' = lg
              /\ UNCHANGED <<pc, sftp_open, exc>>
         ELSE RaiseInner(lg, r)
  /\ UNCHANGED localfs
  /\ WalkUnchanged

\* line 31: an excluded entry is passed over
WalkExcluded ==
  /\ pc = "walk"
  /\ Top.listed /\ Top.i <= Len(Top.items)
  /\ should_exclude(Item.filename)
  /\ stack' = SetTop([Top EXCEPT !.i = @ + 1])
  /\ log' = Append(log, Ev("item", remote_path, "excluded"))
  /\ UNCHANGED <<pc, localfs, sftp_open, exc>>
  /\ WalkUnchanged

\* lines 35-37: the directory branch
WalkDirectory ==
  /\ pc = "walk"
  /\ Top.listed /\ Top.i <= Len(Top.items)
  /\ ~should_exclude(Item.filename)
  /\ TreatedAsDirectory(Item)
  /\ LET made == makedirs(localfs, local_path, TRUE)
         lg == Append(log, Ev("item", remote_path, "directory"))
     IN IF made.raised
          THEN RaiseInner(Append(lg, Ev("makedirs", local_path, "OSError")), "OSError")
               /\ UNCHANGED localfs
          ELSE /\ localfs' = made.fs
               /\ log' = Append(lg, Ev("makedirs", local_path, "ok"))
               /\ stack' = Append(stack, Frame(remote_path, local_path))
               /\ UNCHANGED <<pc, sftp_open, exc>>
  /\ WalkUnchanged

\* lines 38-43: the file branch
WalkFile ==
  /\ pc = "walk"
  /\ Top.listed /\ Top.i <= Len(Top.items)
  /\ ~should_exclude(Item.filename)
  /\ ~TreatedAsDirectory(Item)
  /\ LET remote_size == Item.st_size
         opened == open_wb(localfs, local_path)
         lg0 == Append(log, Ev("item", remote_path, "file"))
         lg1 == Append(lg0, Prints(MsgDownloading))
     IN IF format_size(remote_size).raised
          THEN RaiseInner(Append(lg0, Ev("format_size", <<>>, "KeyError")), "KeyError")
               /\ UNCHANGED localfs
          ELSE IF opened.raised
            THEN RaiseInner(Append(lg1, Ev("open", local_path, "OSError")), "OSError")
                 /\ UNCHANGED localfs
            ELSE \E r \in GetfoOutcomes(remote_path) :
                   LET got == getfo(Append(lg1, Ev("open", local_path, "ok")), opened.fs,
                                    remote_path, local_path, remote_size, r)
                   IN /\ localfs' = got.fs
                      /\ IF got.exc = "ok"
                           THEN /\ log' = Append(got.log, Prints(MsgFileComplete))
                                /\ stack' = SetTop([Top EXCEPT !.i = @ + 1])
                                /\ UNCHANGED <<pc, sftp_open, exc>>
                           ELSE IF WalkerCatches(got.exc)
                             THEN /\ log' = got.log
                                  /\ stack' = SetTop([Top EXCEPT !.i = @ + 1])
                                  /\ UNCHANGED <<pc, sftp_open, exc>>
                             ELSE RaiseInner(got.log, got.exc)
  /\ WalkUnchanged

\* the end of the for loop: download_directory returns to its caller
WalkReturn ==
  /\ pc = "walk"
  /\ Top.listed /\ Top.i > Len(Top.items)
  /\ IF Len(stack) = 1
       THEN stack' = <<>> /\ pc' = "completed"
       ELSE /\ stack' = [SubSeq(stack, 1, Len(stack) - 1) EXCEPT ![Len(stack) - 1].i = @ + 1]
            /\ pc' = pc
  /\ UNCHANGED <<localfs, log, sftp_open, exc>>
  /\ WalkUnchanged

\* ------------------------------------------------------- single-file path
remote_file_path == Append(remote_directory, filename)
local_file_path == Append(local_case_directory, filename)

\* what sftp.stat answers for a path
StatOutcomes(path) ==
  {IF Present(RemoteNode(remote, path)) THEN "ok" ELSE "FileNotFoundError",
   "KeyboardInterrupt", "SSHException"}

FailedProbes == Cardinality({k \in DOMAIN log : log[k] = Prints(MsgNoFile)})

\* a filename loop that is left after any probe
FilenameLoopLeaves(r) == "transfer"

\* lines 125-129: "break" after a probe that succeeds leaves the filename
\* loop; a FileNotFoundError is reported and the loop asks again
FilenameLoopTarget(r) == IF r = "ok" THEN "transfer" ELSE "filename"

\* lines 120-129: one round of the filename loop: the prompt, then the probe
PromptFilename ==
  /\ pc = "filename"
  /\ \/ \E v \in FilenameInputs : \E r \in StatOutcomes(Append(remote_directory, v)) :
          LET lg == Append(Append(log, Ev("input", <<"filename", v>>, "ok")),
                           Ev("stat", Append(remote_directory, v), r))
          IN /\ filename' = v
             /\ CASE r = "ok" ->
                       /\ pc' = FilenameLoopTarget(r)
                       /\ log' = lg
                       /\ UNCHANGED <<sftp_open, stack, exc>>
                  [] r = "FileNotFoundError" ->
                       /\ FailedProbes < MaxFilePrompts
                       /\ log' = Append(lg, Prints(MsgNoFile))
                       /\ pc' = FilenameLoopTarget(r)
                       /\ UNCHANGED <<sftp_open, stack, exc>>
                  [] OTHER -> RaiseInner(lg, r)
     \/ \E r \in InputOutcomes \ {"ok"} :
          /\ RaiseInner(Append(log, Ev("input", <<"filename">>, r)), r)
          /\ UNCHANGED filename
  /\ UNCHANGED <<remote, localfs, ssh_client, conns, case_number, local_parent_directory,
                 choice, n_connect, n_close, last_round>>

\* lines 131-134: the local file is opened, the size is read by a second stat,
\* and getfo copies the file; print_progress runs after each chunk and formats
\* remote_size, which raises for a size format_size has no label for.
SingleTransfer ==
  /\ pc = "transfer"
  /\ LET opened == open_wb(localfs, local_file_path)
         remote_size == Stat(RemoteNode(remote, remote_file_path)).st_size
     IN IF opened.raised
          THEN RaiseInner(Append(log, Ev("open", local_file_path, "OSError")), "OSError")
               /\ UNCHANGED localfs
          ELSE \E r2 \in StatOutcomes(remote_file_path) :
                 LET lg1 == Append(Append(log, Ev("open", local_file_path, "ok")),
                                   Ev("stat", remote_file_path, r2))
                 IN IF r2 # "ok"
                      THEN /\ localfs' = opened.fs
                           /\ RaiseInner(Append(lg1, Ev("file_close", local_file_path, "ok")), r2)
                      ELSE \E r \in GetfoOutcomes(remote_file_path) :
                             LET got == getfo(lg1, opened.fs, remote_file_path,
                                              local_file_path, remote_size, r)
                             IN /\ localfs' = got.fs
                                /\ IF got.exc = "ok"
                                     THEN /\ log' = Append(got.log, Prints(MsgFileComplete))
                                          /\ pc' = "completed"
                                          /\ UNCHANGED <<sftp_open, stack, exc>>
                                     ELSE RaiseInner(got.log, got.exc)
  /\ UNCHANGED <<remote, ssh_client, conns, case_number, local_parent_directory, choice,
                 filename, n_connect, n_close, last_round>>

\* where the end of the loop body (after line 138) leads: the top of the
\* while True loop, which is the connect call
CompletedTarget == "connect"

\* line 138, then the end of the with block and of the loop body
Completed ==
  /\ pc = "completed"
  /\ log' = Append(log, Prints(MsgCompleted))
  /\ sftp_open' = sftp_open - 1
  /\ pc' = CompletedTarget
  /\ last_round' = IF choice \in {"yes", "no"} THEN "downloaded" ELSE "invalid"
  /\ UNCHANGED <<remote, localfs, ssh_client, conns, case_number, local_parent_directory,
                 choice, filename, stack, n_connect, n_close, exc>>

\* ---------------------------------------------------------------- teardown
\* SSHClient.close closes the transport the client holds
CloseHeld(cs, t) == IF t \in DOMAIN cs THEN [cs EXCEPT ![t] = "closed"] ELSE cs

\* lines 146-149: the finally block.  Reading the name ssh_client before line
\* 70 has bound it raises NameError, which ends the script there; otherwise
\* the client is closed, the message printed, and a propagating exception
\* then ends the script.
Teardown ==
  /\ pc = "finally"
  /\ IF ~ssh_client.bound
       THEN /\ pc' = "crashed"
            /\ exc' = "NameError"
            /\ log' = Append(log, Ev("raise", <<"ssh_client">>, "NameError"))
            /\ UNCHANGED <<conns, n_close>>
       ELSE /\ conns' = CloseHeld(conns, ssh_client.transport)
            /\ n_close' = n_close + 1
            /\ log' = log \o <<Ev("close", <<>>, "ok"), Prints(MsgEnded)>>
            /\ pc' = IF exc = "none" THEN "done" ELSE "crashed"
            /\ exc' = exc
  /\ UNCHANGED <<remote, localfs, ssh_client, sftp_open, case_number,
                 local_parent_directory, choice, filename, stack, n_connect, last_round>>

Next ==
  \/ PromptUsername \/ PromptPassword \/ CreateClient \/ Connect
  \/ PromptCase \/ PromptLocalDir \/ OpenSftp \/ Validate \/ EnsureLocalCase
  \/ ListContents \/ PromptChoice
  \/ WalkListdir \/ WalkExcluded \/ WalkDirectory \/ WalkFile \/ WalkReturn
  \/ PromptFilename \/ SingleTransfer \/ Completed \/ Teardown

Spec == Init /\ [][Next]_vars

\* ------------------------------------------------- format_size on its own
\* The sizes format_size is applied to: every digit is 0, 1, 2 or 1023, so
\* that each power of 1024 up to 1024^4, its neighbours, and sizes beyond
\* 1024^4 are there.
SizeInputs ==
  {d \in [1..NDigits -> {0, 1, 2, power - 1}] : d[NDigits] <= 1}

\* The walker about to handle the only entry of the case directory, a
\* regular file of one of these sizes: download_directory has listed the
\* directory, and line 40 applies format_size to item.st_size.
FormatInit ==
  /\ pc = "walk"
  /\ \E size \in SizeInputs : remote = <<Entry("core.dump", S_IFREG + 420, size, "D")>>
  /\ localfs = [q \in Prefixes(Home \o <<"dl", ExistingCase>>) |-> DirNode]
  /\ ssh_client = [bound |-> TRUE, transport |-> 1]
  /\ conns = <<"open">>
  /\ sftp_open = 1
  /\ case_number = ExistingCase
  /\ local_parent_directory = Home \o <<"dl">>
  /\ choice = "yes"
  /\ filename = ""
  /\ stack = <<[Frame(<<"case", ExistingCase>>, Home \o <<"dl", ExistingCase>>) EXCEPT
                  !.items = <<Attr(remote[1])>>, !.listed = TRUE]>>
  /\ log = <<Ev("connect", <<>>, "ok"), Prints(MsgEstablished),
             Ev("input", <<"case", ExistingCase>>, "ok"),
             Ev("input", <<"localdir", "~", "dl">>, "ok"),
             Ev("open_sftp", <<>>, "ok"),
             Ev("listdir", <<"case", ExistingCase>>, "ok"),
             Ev("makedirs", Home \o <<"dl", ExistingCase>>, "ok"),
             Ev("listdir", <<"case", ExistingCase>>, "ok"), Prints(MsgContents),
             Ev("input", <<"choice", "yes">>, "ok"),
             Ev("listdir_attr", <<"case", ExistingCase>>, "ok")>>
  /\ n_connect = 1
  /\ n_close = 0
  /\ exc = "none"
  /\ last_round = "none"

FormatNext == WalkFile \/ WalkReturn \/ Completed \/ Teardown

FormatSpec == FormatInit /\ [][FormatNext]_vars

\* ------------------------------------------------------------- properties
Has(e) == \E k \in DOMAIN log : log[k] = e
Terminated == pc \in {"done", "crashed"}
InTeardown == pc \in {"finally", "done"}
TeardownEvent(e) == e = Ev("close", <<>>, "ok") \/ e = Prints(MsgEnded)
IsSentinel(name) == name \in {".sfdcprefix", ".sfdc-file-listing-v1"}

RECURSIVE RelPaths(_)
\* the relative paths of all entries of a listing
RelPaths(l) ==
  IF l = <<>> THEN {}
  ELSE {<<Head(l).filename>>}
       \cup {<<Head(l).filename>> \o q : q \in RelPaths(Head(l).children)}
       \cup RelPaths(Tail(l))

\* the local case directory mirrors the remote tree: every remote entry is
\* there with its type, size and content, and nothing else is
Mirrored ==
  /\ \A q \in RelPaths(remote) :
       LET n == Find(remote, q)
           lp == local_case_directory \o q
       IN /\ lp \in DOMAIN localfs
          /\ IF IsDir(n) THEN localfs[lp].kind = "dir"
             ELSE localfs[lp] = FileNode(n.content_size, n.data)
  /\ \A lp \in DOMAIN localfs :
       (Len(lp) > Len(local_case_directory)
          /\ SubSeq(lp, 1, Len(local_case_directory)) = local_case_directory)
       => SubSeq(lp, Len(local_case_directory) + 1, Len(lp)) \in RelPaths(remote)

\* C1: on every path of the script close is called exactly once and the
\* message 'Session has ended.' is printed after it, whatever ended the script
\* (an interrupt at the username or password prompt included).
C1_TeardownOnEveryPath ==
  Terminated =>
    /\ n_close = 1
    /\ Len(log) >= 2
    /\ log[Len(log) - 1] = Ev("close", <<>>, "ok")
    /\ log[Len(log)] = Prints(MsgEnded)

\* C2: a walk that ends without error over a tree without sentinel names
\* leaves a mirror of the tree, and the walker sends every directory entry to
\* the directory branch and every regular file to the file branch.
C2_WalkMirrorsTree ==
  /\ (pc = "completed" /\ choice = "yes" /\ \A q \in RelPaths(remote) : ~IsSentinel(q[Len(q)]))
       => Mirrored
  /\ \A k \in DOMAIN log :
       (log[k].op = "item" /\ log[k].res # "excluded") =>
         /\ IsDir(RemoteNode(remote, log[k].arg)) => log[k].res = "directory"
         /\ IsReg(RemoteNode(remote, log[k].arg)) => log[k].res = "file"

\* C3: in a walk no entry with a sentinel name is transferred or recursed
\* into, at any depth, and every other entry the loop reaches has a transfer
\* (getfo) or a recursion (makedirs and the call) attempted.
C3_ExactExclusion ==
  choice = "yes" =>
    /\ \A k \in DOMAIN log :
         log[k].op \in {"getfo", "listdir_attr", "makedirs", "open"} =>
           \A j \in 3..Len(log[k].arg) : ~IsSentinel(log[k].arg[j])
    /\ \A k \in DOMAIN log :
         (log[k].op = "item" /\ ~IsSentinel(log[k].arg[Len(log[k].arg)])) =>
           \E j \in DOMAIN log :
             /\ j > k
             /\ \/ log[j].op = "getfo" /\ log[j].arg = log[k].arg
                \/ /\ log[j].op = "makedirs"
                   /\ log[j].arg = local_case_directory
                                     \o SubSeq(log[k].arg, 3, Len(log[k].arg))

\* C4: an interrupt at the password prompt prints the abort message and ends
\* the script without a connect, an SFTP session or a listing.
C4_PasswordInterruptAborts ==
  (Terminated /\ Has(Ev("input", <<"password">>, "KeyboardInterrupt"))) =>
    /\ Has(Prints(MsgAborted))
    /\ n_connect = 0
    /\ \A k \in DOMAIN log : log[k].op \notin {"connect", "open_sftp", "listdir", "listdir_attr"}

\* C5: after the report that the remote directory does not exist, and until
\* the case-number prompt is shown again, the session is not aborted and the
\* connection is not closed (as long as the user does not interrupt).
C5_MissingDirectoryReprompts ==
  (/\ last_round = "missing"
   /\ \A k \in DOMAIN log : ~(log[k].op = "input" /\ log[k].arg[1] = "case")
   /\ \A k \in DOMAIN log : log[k].res # "KeyboardInterrupt")
    => /\ pc \in {"connect", "case"}
       /\ n_close = 0
       /\ \A k \in DOMAIN conns : conns[k] = "open"

\* C6: once a download has completed and 'Download process completed.' is
\* printed, the session goes to teardown: no further connect call is made.
C6_ExitAfterDownload ==
  [][(/\ last_round = "downloaded"
      /\ log # <<>> /\ log[Len(log)] = Prints(MsgCompleted)
      /\ \E k \in DOMAIN log : log[k].op = "getfo" /\ log[k].res = "ok")
       => (pc' = "finally" /\ n_connect' = n_connect)]_vars

\* C7: when connect raises an authentication failure, a transport failure or
\* an interrupt, the matching message is printed and the session goes
\* straight to teardown: no retry, no prompt, no SFTP session, no listing.
C7_ConnectFailureAborts ==
  (/\ log # <<>>
   /\ log[1].op = "connect"
   /\ log[1].res \in {"AuthenticationException", "SSHException", "KeyboardInterrupt"})
    => /\ Len(log) >= 2
       /\ log[2] = Prints(CASE log[1].res = "AuthenticationException" -> MsgAuthFailed
                            [] log[1].res = "SSHException" -> MsgSshFailed
                            [] OTHER -> MsgAborted)
       /\ InTeardown
       /\ \A k \in 3..Len(log) : TeardownEvent(log[k])
       /\ sftp_open = 0

C7_Witness ==
  /\ pc = "done"
  /\ log[1] = Ev("connect", <<>>, "SSHException")
  /\ last_round = "missing"

\* C8: no file with a sentinel name is ever downloaded, by the walker or by
\* the single-file path: no transfer of such a file succeeds and no local
\* file of that name holds remote content.
C8_SentinelNeverDownloaded ==
  /\ \A k \in DOMAIN log :
       (log[k].op = "getfo" /\ log[k].res = "ok") => ~IsSentinel(log[k].arg[Len(log[k].arg)])
  /\ \A lp \in DOMAIN localfs :
       (localfs[lp].kind = "file" /\ localfs[lp].data # "") => ~IsSentinel(lp[Len(lp)])

\* C9: in the single-file path a probe that reports file-not-found is followed
\* by the message and by the filename prompt again; a local file is opened and
\* a transfer started only after a probe of the last filename entered has
\* succeeded, and that file is the one transferred.
C9_FilenameLoop ==
  /\ \A k \in DOMAIN log :
       (log[k].op = "stat" /\ log[k].res = "FileNotFoundError") =>
         /\ k + 1 <= Len(log) /\ log[k + 1] = Prints(MsgNoFile)
         /\ IF k + 1 = Len(log) THEN pc = "filename"
            ELSE log[k + 2].op = "input" /\ log[k + 2].arg[1] = "filename"
  /\ choice = "no" =>
       \A k \in DOMAIN log :
         log[k].op \in {"open", "getfo"} =>
           \E j \in 1..(k - 1) :
             /\ log[j] = Ev("input", <<"filename", filename>>, "ok")
             /\ log[j + 1] = Ev("stat", remote_file_path, "ok")
             /\ \A m \in (j + 1)..Len(log) : log[m].op # "input"
             /\ log[k].arg = IF log[k].op = "getfo" THEN remote_file_path ELSE local_file_path

C9_Witness ==
  /\ pc = "completed"
  /\ choice = "no"
  /\ FailedProbes >= 1
  /\ Has(Ev("getfo", remote_file_path, "ok"))

\* C10: an interrupt at the case-number, local-directory, yes/no or filename
\* prompt, or during a listing, a probe or a transfer, is followed by the abort
\* message (once the with block has closed the local file) and by teardown
\* only: the loop is left, nothing else happens.
C10_InterruptAbortsSession ==
  \A k \in DOMAIN log :
    (/\ log[k].res = "KeyboardInterrupt"
     /\ \/ log[k].op = "input" /\ log[k].arg[1] \in {"case", "localdir", "choice", "filename"}
        \/ log[k].op \in {"open_sftp", "listdir", "listdir_attr", "stat", "getfo"})
      => LET a == IF k + 1 <= Len(log) /\ log[k + 1].op = "file_close" THEN k + 2 ELSE k + 1
         IN /\ a <= Len(log) /\ log[a] = Prints(MsgAborted)
            /\ InTeardown
            /\ \A j \in (a + 1)..Len(log) : TeardownEvent(log[j])
            /\ stack = <<>> /\ sftp_open = 0

C10_Witness ==
  /\ pc = "done"
  /\ \E k \in DOMAIN log : log[k].op = "getfo" /\ log[k].res = "KeyboardInterrupt"
                           /\ Len(log[k].arg) > 3

\* C11: when the session has ended, every local file that was opened has been
\* closed, every SFTP session that was opened has been closed, and every
\* connection made by a successful connect call has been closed.
C11_ResourcesReleased ==
  Terminated =>
    /\ \A k \in DOMAIN log :
         (log[k].op = "open" /\ log[k].res = "ok") =>
           \E j \in (k + 1)..Len(log) : log[j] = Ev("file_close", log[k].arg, "ok")
    /\ sftp_open = 0
    /\ \A k \in DOMAIN conns : conns[k] = "closed"

\* C12: within one transfer the byte counts that successive progress callbacks
\* report never decrease, and the last callback of a transfer that succeeds
\* reports as many bytes as the size the progress line uses as its total (the
\* size from the listing entry, or from the stat made before the transfer).
C12_ProgressMonotone ==
  \A k \in DOMAIN log :
    log[k].op = "progress" =>
      /\ (k > 1 /\ log[k - 1].op = "progress") => ~SizeLess(log[k].arg[1], log[k - 1].arg[1])
      /\ (k < Len(log) /\ log[k + 1].op = "getfo" /\ log[k + 1].res = "ok")
           => log[k].arg[1] = log[k].arg[3]

\* the calls of the walker that can fail, and the error results (an interrupt
\* is no error)
WalkCall(e) == e.op \in {"listdir_attr", "getfo", "open", "makedirs", "format_size"}
Failed(e) == e.res \notin {"ok", "KeyboardInterrupt", ""}
AskedAt(k) == log[k].op = "input" /\ log[k].arg[1] = "choice"

\* C13: when a call of the walk (a transfer, a listing) fails with an error,
\* the error leaves every level of download_directory: nothing is transferred
\* or created afterwards, the files transferred before are still there, the
\* outer handler prints 'An error occurred', and teardown runs.
C13_WalkErrorPropagates ==
  choice = "yes" =>
    \A k \in DOMAIN log :
      (WalkCall(log[k]) /\ Failed(log[k]) /\ \E c \in 1..(k - 1) : AskedAt(c)) =>
        LET a == IF k + 1 <= Len(log) /\ log[k + 1].op = "file_close" THEN k + 2 ELSE k + 1
        IN /\ a <= Len(log) /\ log[a] = Prints(MsgError)
           /\ \A j \in (a + 1)..Len(log) : TeardownEvent(log[j])
           /\ stack = <<>>
           /\ InTeardown /\ ssh_client.bound
           /\ pc = "done" => (n_close = 1 /\ log[Len(log)] = Prints(MsgEnded))
           /\ \A j \in 1..(k - 1) :
                (log[j].op = "getfo" /\ log[j].res = "ok" /\ \E c \in 1..(j - 1) : AskedAt(c)) =>
                  LET node == RemoteNode(remote, log[j].arg)
                      lp == local_case_directory \o SubSeq(log[j].arg, 3, Len(log[j].arg))
                  IN lp \in DOMAIN localfs
                     /\ localfs[lp] = FileNode(node.content_size, node.data)

C13_Witness ==
  /\ pc = "done"
  /\ choice = "yes"
  /\ \E k \in DOMAIN log :
       /\ log[k].op = "listdir_attr" /\ Failed(log[k]) /\ Len(log[k].arg) > 2
       /\ \E j \in 1..(k - 1) : log[j].op = "getfo" /\ log[j].res = "ok"

InvalidAt(k) == AskedAt(k) /\ log[k].res = "ok" /\ Lower(log[k].arg[2]) \notin {"yes", "no"}

\* C14: an answer to the yes/no question that is neither 'yes' nor 'no' once
\* lower-cased is followed by the invalid-choice message and then by 'Download
\* process completed.' only: no probe, no transfer, no local file is made, and
\* the question is not asked a second time in that pass.
C14_InvalidChoice ==
  \A k \in DOMAIN log :
    InvalidAt(k) =>
      /\ k + 1 <= Len(log) /\ log[k + 1] = Prints(MsgInvalid)
      /\ Len(log) <= k + 2
      /\ IF Len(log) = k + 1 THEN pc = "completed"
         ELSE log[k + 2] = Prints(MsgCompleted) /\ pc = CompletedTarget
      /\ \A j \in DOMAIN log :
           /\ log[j].op \notin {"open", "getfo", "progress", "stat", "listdir_attr"}
           /\ AskedAt(j) => j = k
      /\ stack = <<>>
      /\ n_connect = 1 => \A lp \in DOMAIN localfs : localfs[lp].kind = "dir"

C14_Witness ==
  /\ last_round = "invalid"
  /\ pc = "connect"
  /\ \E k \in DOMAIN log : InvalidAt(k) /\ log[k].arg[2] = "maybe"
  /\ log[Len(log)] = Prints(MsgCompleted)

IsPrefix(p, q) == Len(p) <= Len(q) /\ SubSeq(q, 1, Len(p)) = p
ItemAt(k) == log[k].op = "item"
\* the position of the entry of an item event in the listing of its directory
Position(path) ==
  LET l == RemoteNode(remote, Parent(path)).children
  IN CHOOSE i \in DOMAIN l : l[i].filename = path[Len(path)]

\* C15: the walk is sequential and depth-first: the entries of a directory are
\* handled in the order of its listing, one after the other; a transfer is
\* over (its file closed) before anything else is handled; and everything
\* below an entry handled as a directory is handled before the next entry of
\* its parent.
C15_DepthFirst ==
  \A k \in DOMAIN log :
    /\ ItemAt(k) =>
         /\ Position(log[k].arg) =
              1 + Cardinality({j \in 1..(k - 1) :
                                 ItemAt(j) /\ Parent(log[j].arg) = Parent(log[k].arg)})
         /\ \A m \in (k + 1)..Len(log) :
              (ItemAt(m) /\ Parent(log[m].arg) = Parent(log[k].arg)) =>
                /\ \A j \in DOMAIN log :
                     (log[j].op \in {"item", "getfo", "listdir_attr"}
                        /\ IsPrefix(log[k].arg, log[j].arg)) => j < m
                /\ log[k].res = "directory" =>
                     LET l == RemoteNode(remote, log[k].arg).children
                     IN \A i \in DOMAIN l :
                          \E j \in (k + 1)..(m - 1) :
                            ItemAt(j) /\ log[j].arg = Append(log[k].arg, l[i].filename)
                /\ log[k].res = "file" =>
                     \E j \in (k + 1)..(m - 1) :
                       log[j] = Ev("getfo", log[k].arg, "ok")
    /\ (log[k].op = "open" /\ log[k].res = "ok") =>
         \E j \in (k + 1)..Len(log) :
           /\ log[j] = Ev("file_close", log[k].arg, "ok")
           /\ log[j - 1].op = "getfo" \/ log[j - 1].op = "stat"
           /\ \A i \in (k + 1)..(j - 2) : log[i].op \in {"progress", "stat"}

C15_Witness ==
  /\ pc = "completed"
  /\ \E k, j, m \in DOMAIN log :
       /\ k < j /\ j < m
       /\ ItemAt(k) /\ log[k].res = "directory"
       /\ log[j].op = "getfo" /\ log[j].res = "ok"
       /\ IsPrefix(log[k].arg, log[j].arg) /\ Len(log[j].arg) > Len(log[k].arg)
       /\ ItemAt(m) /\ log[m].res = "file" /\ Parent(log[m].arg) = Parent(log[k].arg)

\* 1024^j as a size
PowerOf(j) == [i \in 1..NDigits |-> IF i = j + 1 THEN 1 ELSE 0]
\* d <= e, for sizes d and e
SizeLeq(d, e) == ~SizeLess(e, d)
\* the size format_size is applied to, and whether line 40 has been run
GivenSize == remote[1].st_size
Formatted == \E k \in DOMAIN log : ItemAt(k)

\* C16: for a size B of at most 1024^4, format_size returns after k
\* divisions, where k is the least number with B / 1024^k <= 1024; k is one of
\* 0..3 and does not decrease as B grows; the value printed is between 0 and
\* 1024; B = 1024^j (j in 1..4) stays in unit j - 1 with the value 1024.
C16_FormatSizeUnits ==
  SizeLeq(GivenSize, Tera) =>
    LET r == format_size(GivenSize) IN
    /\ ~r.raised
    /\ r.n \in 0..3
    /\ r.label = Labels[r.n + 1]
    /\ SizeLeq(GivenSize, PowerOf(r.n + 1))
    /\ \A j \in 0..(r.n - 1) : SizeLess(PowerOf(j + 1), GivenSize)
    /\ \A B \in SizeInputs : SizeLess(B, GivenSize) => format_size(B).n <= r.n
    /\ r.whole \in 0..power
    /\ r.whole = power => \A i \in 1..r.n : GivenSize[i] = 0
    /\ \A j \in 1..Len(Labels) :
         GivenSize = PowerOf(j) => (r.n = j - 1 /\ r.whole = power)
    /\ Formatted => (Has(Prints(MsgDownloading)) /\ ~Has(Ev("format_size", <<>>, "KeyError")))

C16_Witness ==
  /\ GivenSize = Tera
  /\ Has(Prints(MsgFileComplete))
  /\ format_size(GivenSize).label = "GB"

\* C17: for a size B above 1024^4, format_size reaches a unit index of 4 or
\* more, which is no key of the label table, and raises; the walker entry of
\* that size fails at line 40, before its local file is opened and before
\* its transfer starts.
C17_FormatSizeBeyondGB ==
  SizeLess(Tera, GivenSize) =>
    LET r == format_size(GivenSize) IN
    /\ r.raised
    /\ r.n >= Len(Labels)
    /\ r.n \notin DOMAIN power_labels
    /\ Formatted =>
         /\ \E k \in DOMAIN log :
              /\ log[k] = Ev("item", <<"case", ExistingCase, "core.dump">>, "file")
              /\ k + 2 <= Len(log)
              /\ log[k + 1] = Ev("format_size", <<>>, "KeyError")
              /\ log[k + 2] = Prints(MsgError)
         /\ \A k \in DOMAIN log : log[k].op \notin {"open", "getfo", "progress"}
         /\ ~Has(Prints(MsgDownloading))
         /\ \A lp \in DOMAIN localfs : localfs[lp].kind = "dir"
         /\ InTeardown

C17_Witness ==
  /\ GivenSize = TeraPlus1
  /\ pc = "done"
  /\ Has(Ev("format_size", <<>>, "KeyError"))

IsLocalDir(fs, path) == path \in DOMAIN fs /\ fs[path].kind = "dir"
\* the walker is at an entry that goes to the directory branch
AtDirectoryEntry ==
  /\ pc = "walk" /\ stack # <<>>
  /\ Top.listed /\ Top.i <= Len(Top.items)
  /\ ~should_exclude(Item.filename) /\ TreatedAsDirectory(Item)

\* C18: the step that ensures a local directory, applied to a path that is a
\* directory already, does not fail and changes nothing in the local
\* filesystem, in the walker (line 36) and for the local case directory
\* (lines 106-107); applied a second time it gives what it gave the first time.
C18_EnsureIdempotent ==
  [][/\ (pc = "mkcase"
           /\ IsLocalDir(localfs, Append(expanduser(local_parent_directory), case_number)))
          => (localfs' = localfs /\ pc' = "list")
     /\ (AtDirectoryEntry /\ IsLocalDir(localfs, local_path))
          => (localfs' = localfs /\ pc' = "walk" /\ stack' = Append(stack, Frame(remote_path, local_path)))
     /\ AtDirectoryEntry =>
          LET once == makedirs(localfs, local_path, TRUE)
          IN ~once.raised => makedirs(once.fs, local_path, TRUE) = once
     /\ pc = "mkcase" =>
          LET dir == Append(expanduser(local_parent_directory), case_number)
              once == IF exists(localfs, dir) THEN localfs ELSE makedirs(localfs, dir, FALSE).fs
          IN exists(once, dir)
    ]_vars

C18_Witness ==
  /\ pc = "walk"
  /\ n_connect = 2
  /\ ~Has(Ev("makedirs", local_case_directory, "ok"))
  /\ \E lp \in DOMAIN localfs :
       /\ log[Len(log)] = Ev("makedirs", lp, "ok")
       /\ \E f \in DOMAIN localfs :
            IsPrefix(lp, f) /\ Len(f) > Len(lp) /\ localfs[f].kind = "file" /\ localfs[f].data # ""

\* C19: the case-number prompt is reached only from a connect call that
\* succeeded, made at the top of the pass: the first pass, the pass after the
\* report of a missing directory and the pass after the completion message
\* all start with a connect call on the same client, so each pass begun is one
\* connect call; close is called in the finally block only.
C19_ConnectEveryPass ==
  [][/\ pc' = "case" =>
          /\ pc = "connect"
          /\ n_connect' = n_connect + 1
          /\ log' = <<Ev("connect", <<>>, "ok"), Prints(MsgEstablished)>>
          /\ conns' = Append(conns, "open")
          /\ ssh_client'.bound /\ ssh_client'.transport = Len(conns')
     /\ (pc' = "connect" /\ pc # "connect") =>
          \/ pc = "create_client"
          \/ pc = "validate" /\ log'[Len(log')] = Prints(MsgNoDirectory)
          \/ pc = "completed" /\ log'[Len(log')] = Prints(MsgCompleted)
     /\ pc = "connect" => n_connect' = n_connect + 1
     /\ pc # "connect" => n_connect' = n_connect
     /\ (\E k \in DOMAIN log' : log'[k].op = "input" /\ log'[k].arg[1] = "case") =>
          /\ log'[1] = Ev("connect", <<>>, "ok")
          /\ log'[2] = Prints(MsgEstablished)
          /\ log'[3].op = "input" /\ log'[3].arg[1] = "case"
     /\ (n_close' # n_close \/ conns' # conns) =>
          \/ pc = "finally" /\ n_close' = n_close + 1 /\ Len(conns') = Len(conns)
          \/ pc = "connect" /\ n_close' = n_close /\ conns' = Append(conns, "open")
    ]_vars

C19_Witness ==
  /\ pc = "localdir"
  /\ n_connect = 2
  /\ last_round = "missing"
  /\ n_close = 0
  /\ conns = <<"open", "open">>

\* C20: the local filesystem changes only in a pass in which the listing of
\* the remote case directory has succeeded (so nothing is created while the
\* case numbers entered fail validation), and the local case directory
\* exists when the yes/no question is asked, whatever the answer.
C20_LocalChangesAfterListing ==
  [][/\ localfs' # localfs =>
          /\ \E k \in DOMAIN log : log[k] = Ev("listdir", remote_directory, "ok")
          /\ IsLocalDir(localfs', local_case_directory')
          /\ \A lp \in DOMAIN localfs' :
               (lp \notin DOMAIN localfs \/ localfs'[lp] # localfs[lp]) =>
                 IsPrefix(lp, local_case_directory') \/ IsPrefix(local_case_directory', lp)
     /\ (pc' = "choice"
           \/ \E k \in DOMAIN log' : log'[k].op = "input" /\ log'[k].arg[1] = "choice") =>
          IsLocalDir(localfs', local_case_directory')
     /\ (pc' = "choice" /\ ~Has(Ev("makedirs", local_case_directory', "ok"))) =>
          IsLocalDir(localfs, local_case_directory')
    ]_vars

C20_Witness ==
  /\ last_round = "invalid"
  /\ pc = "connect"
  /\ n_connect = 1
  /\ IsLocalDir(localfs, local_case_directory)
  /\ \A lp \in DOMAIN localfs : localfs[lp].kind = "dir"
  /\ Has(Prints(MsgInvalid))

====
